---------------------------- MODULE Spec2Model ----------------------------
(***************************************************************************)
(* A model of pepper-music-player: the LinearEntry play order              *)
(* (player/order.py), the tag container (metadata/tag.py) and the          *)
(* play/pause control of the application shell as exercised by             *)
(* ui/application_test.py.                                                 *)
(***************************************************************************)
EXTENDS Integers, Sequences, FiniteSets, TLC

(***************************************************************************)
(* Bounds of the model.                                                    *)
(***************************************************************************)
\* Distinct track tokens in the library.
MaxTokens == 3
\* Playable units in the playlist at any one time, over all its entries.
MaxUnits == 3
\* Playlist entries ever appended.
MaxEntries == 2
\* Values a tag name carries.
MaxValues == 2
\* Characters of a track number value.
MaxStrLen == 5
\* Components handed to compose.
MaxComponents == 2
\* Values, over all its names, of one component handed to compose.
MaxPairs == 2
\* PlayStatus events published on the bus.
MaxPublishes == 3
\* Entries appended to the playlist the shell shows.
MaxAppends == 2
\* Activations of the play/pause control.
MaxClicks == 2

VARIABLES
    \* ---- player/order.py and the playlist it follows ----
    playlist,   \* entries currently in the playlist, in playlist order
    units,      \* entry -> track tokens of its playable units, in order
    nextEntry,  \* the next fresh playlist entry
    current,    \* the unit the player is on (NoUnit: nothing is playing)
    trail,      \* units visited since playback of an entry started
    call,       \* the last call of next/previous: op, current, error_policy
    result,     \* what that call gave back to its caller
    back,       \* the opposite operation called on that result, with its outcome
    \* ---- metadata/tag.py ----
    tagsIn,     \* the mapping a Tags was constructed from
    tags,       \* the Tags: what the underlying frozendict stores
    tagCalls,   \* the latest calls made on it, each with its result
    components, \* the components' Tags handed to compose
    composed,   \* what compose returned for them
    \* ---- the application shell, the event bus and the test driving them ----
    phase,      \* where the test is: acting, joining, draining, settled
    entries,    \* number of entries in the playlist the shell shows
    published,  \* every PlayStatus published on the bus, in publish order
    queue,      \* the published events not yet delivered
    delivered,  \* the events delivered to the shell's subscription, in order
    idle,       \* updates the shell has scheduled on the UI loop
    sensitive,  \* play_pause_button.get_sensitive()
    visible,    \* play_pause_stack.get_visible_child_name()
    stale,      \* an entry was appended after the last publication
    clicks,     \* times the play/pause control was activated
    playCalls,  \* calls of player.play()
    pauseCalls  \* calls of player.pause()

orderVars == <<playlist, units, nextEntry, current, trail, call, result, back>>
tagVars == <<tagsIn, tags, tagCalls, components, composed>>
uiVars == <<phase, entries, published, queue, delivered, idle, sensitive,
            visible, stale, clicks, playCalls, pauseCalls>>

vars == <<orderVars, tagVars, uiVars>>

(***************************************************************************)
(* entity.PlayableUnit pairs a track with the playlist entry it is played  *)
(* from.  Tracks are identified by their token; token 0 / entry 0 stand    *)
(* for Python's None.                                                      *)
(***************************************************************************)
Tokens == 1..MaxTokens
EntryIds == 1..MaxEntries

PlayableUnit(track, playlist_entry) ==
    [track |-> track, playlist_entry |-> playlist_entry]

NoUnit == PlayableUnit(0, 0)

\* ErrorPolicy: DEFAULT is an alias of RETURN_NONE.
RETURN_NONE == "RETURN_NONE"
RAISE_STOP_ERROR == "RAISE_STOP_ERROR"
DEFAULT == RETURN_NONE
ErrorPolicy == {RETURN_NONE, RAISE_STOP_ERROR}

\* Outcomes of a call: a returned value or a raised exception.
Return(value) == [kind |-> "return", value |-> value, exc |-> "-"]
Raise(exc) == [kind |-> "raise", value |-> NoUnit, exc |-> exc]
NoResult == [kind |-> "-", value |-> NoUnit, exc |-> "-"]
NoCall == [op |-> "-", current |-> NoUnit, error_policy |-> "-"]
NoBack == [op |-> "-", current |-> NoUnit, result |-> NoResult]

Range(s) == {s[i] : i \in 1..Len(s)}

SeqsUpTo(S, n) == UNION {[1..k -> S] : k \in 0..n}

Max(S) == IF S = {} THEN 0 ELSE CHOOSE x \in S : \A y \in S : y <= x

RECURSIVE SumLen(_, _)
SumLen(f, S) ==
    IF S = {} THEN 0
    ELSE LET e == CHOOSE x \in S : TRUE
         IN  Len(f[e]) + SumLen(f, S \ {e})

\* Track tokens are opaque: the library hands them out in order, so a track
\* not yet in the playlist carries the least token not in use.
KnownTokens == UNION {Range(units[e]) : e \in DOMAIN units}

InTokenOrder(us) ==
    \A i \in 1..Len(us) :
        us[i] <= 1 + Max(KnownTokens \cup {us[j] : j \in 1..(i - 1)})

(***************************************************************************)
(* playlist.Playlist.playable_units(entry): the ordered playable units of  *)
(* an entry; KeyError when the entry is not in the playlist.               *)
(***************************************************************************)
InPlaylist(entry) == entry \in Range(playlist)

PlayableUnits(entry) ==
    IF InPlaylist(entry)
    THEN Return([i \in 1..Len(units[entry]) |->
                    PlayableUnit(units[entry][i], entry)])
    ELSE Raise("KeyError")

(***************************************************************************)
(* order.py:165-168.  The dict comprehension maps each track token to the  *)
(* index of its LAST occurrence in units; the subscript raises KeyError    *)
(* when the token is not a key.  Indices are 1-based here.                 *)
(***************************************************************************)
\* A variant whose enumerate() counts from one: every index is one too high.
TokenIndexFromOne(us, token) ==
    LET hits == {i \in 1..Len(us) : us[i].track = token}
    IN  IF hits = {} THEN 0
        ELSE 1 + (CHOOSE i \in hits : \A j \in hits : j <= i)

\* A variant that finds the first occurrence, as list.index would.
TokenIndexFirst(us, token) ==
    LET hits == {i \in 1..Len(us) : us[i].track = token}
    IN  IF hits = {} THEN 0
        ELSE CHOOSE i \in hits : \A j \in hits : i <= j

TokenIndex(us, token) ==
    LET hits == {i \in 1..Len(us) : us[i].track = token}
    IN  IF hits = {} THEN 0
        ELSE CHOOSE i \in hits : \A j \in hits : j <= i

\* A variant that indexes the way Python's units[index + offset] would in a
\* try/except IndexError: position -1 is the last unit.
UnitInSameEntryWrapping(cur, offset) ==
    IF cur = NoUnit THEN Return(NoUnit)
    ELSE LET got == PlayableUnits(cur.playlist_entry)
         IN  IF got.kind = "raise" THEN Raise("StopError")
             ELSE LET us == got.value
                      index == TokenIndex(us, cur.track)
                  IN  IF index = 0 THEN Raise("StopError")
                      ELSE IF index + offset \in 1..Len(us)
                           THEN Return(us[index + offset])
                      ELSE IF index + offset = 0
                           THEN Return(us[Len(us)])
                      ELSE Return(NoUnit)

\* A variant without the second try/except: the KeyError of the token
\* lookup escapes.
UnitInSameEntryRawKeyError(cur, offset) ==
    IF cur = NoUnit THEN Return(NoUnit)
    ELSE LET got == PlayableUnits(cur.playlist_entry)
         IN  IF got.kind = "raise" THEN Raise("StopError")
             ELSE LET us == got.value
                      index == TokenIndex(us, cur.track)
                  IN  IF index = 0 THEN Raise("KeyError")
                      ELSE IF index + offset \in 1..Len(us)
                           THEN Return(us[index + offset])
                      ELSE Return(NoUnit)

(***************************************************************************)
(* LinearEntry._unit_in_same_entry(current, offset=...)                    *)
(***************************************************************************)
UnitInSameEntry(cur, offset) ==
    IF cur = NoUnit THEN Return(NoUnit)
    ELSE LET got == PlayableUnits(cur.playlist_entry)
         IN  IF got.kind = "raise" THEN Raise("StopError")
             ELSE LET us == got.value
                      index == TokenIndex(us, cur.track)
                  IN  IF index = 0 THEN Raise("StopError")
                      ELSE IF index + offset \in 1..Len(us)
                           THEN Return(us[index + offset])
                      ELSE Return(NoUnit)

\* A variant of the decorator that swallows StopError whatever the policy.
HandleStopErrorSwallowing(inner, error_policy) ==
    IF inner.kind = "raise" /\ inner.exc = "StopError"
    THEN Return(NoUnit)
    ELSE inner

(***************************************************************************)
(* handle_stop_error: the wrapped function's StopError is re-raised under  *)
(* RAISE_STOP_ERROR and turned into None (after logging) under             *)
(* RETURN_NONE; anything else passes through.                              *)
(***************************************************************************)
HandleStopError(inner, error_policy) ==
    IF inner.kind = "raise" /\ inner.exc = "StopError"
    THEN IF error_policy = RAISE_STOP_ERROR
         THEN inner
         ELSE Return(NoUnit)
    ELSE inner

\* LinearEntry.next / LinearEntry.previous
LinearEntryNext(cur, error_policy) ==
    HandleStopError(UnitInSameEntry(cur, 1), error_policy)

\* A variant of previous that steps back by two units.
LinearEntryPreviousByTwo(cur, error_policy) ==
    HandleStopError(UnitInSameEntry(cur, -2), error_policy)

LinearEntryPrevious(cur, error_policy) ==
    HandleStopError(UnitInSameEntry(cur, -1), error_policy)

(***************************************************************************)
(* Initial state: an empty playlist, nothing playing.                      *)
(***************************************************************************)
OrderInit ==
    /\ playlist = << >>
    /\ units = [e \in EntryIds |-> << >>]
    /\ nextEntry = 1
    /\ current = NoUnit
    /\ trail = << >>
    /\ call = NoCall
    /\ result = NoResult
    /\ back = NoBack

\* Playlist.append(library_token): a new entry at the end of the playlist,
\* expanding to the tracks of the library entity.
PlaylistAppend(us) ==
    /\ nextEntry \in EntryIds
    /\ SumLen(units, EntryIds) + Len(us) <= MaxUnits
    /\ InTokenOrder(us)
    /\ playlist' = Append(playlist, nextEntry)
    /\ units' = [units EXCEPT ![nextEntry] = us]
    /\ nextEntry' = nextEntry + 1
    /\ trail' = << >>
    /\ call' = NoCall
    /\ result' = NoResult
    /\ back' = NoBack
    /\ UNCHANGED <<current, tagVars, uiVars>>

\* A playlist edit that removes an entry; the entry is destroyed.
PlaylistRemove(entry) ==
    /\ InPlaylist(entry)
    /\ playlist' = SelectSeq(playlist, LAMBDA e : e # entry)
    /\ units' = [units EXCEPT ![entry] = << >>]
    /\ trail' = << >>
    /\ call' = NoCall
    /\ result' = NoResult
    /\ back' = NoBack
    /\ UNCHANGED <<nextEntry, current, tagVars, uiVars>>

\* The library entity behind an entry loses its i-th track: the track is no
\* longer present in its entry.
LibraryTrackRemoved(entry, i) ==
    /\ InPlaylist(entry)
    /\ i \in 1..Len(units[entry])
    /\ units' = [units EXCEPT ![entry] =
                    SubSeq(@, 1, i - 1) \o SubSeq(@, i + 1, Len(@))]
    /\ trail' = << >>
    /\ call' = NoCall
    /\ result' = NoResult
    /\ back' = NoBack
    /\ UNCHANGED <<playlist, nextEntry, current, tagVars, uiVars>>

\* The player starts on unit i of an entry of the playlist.
Play(entry, i) ==
    /\ InPlaylist(entry)
    /\ i \in 1..Len(units[entry])
    /\ current' = PlayableUnit(units[entry][i], entry)
    /\ trail' = IF i = 1 THEN <<PlayableUnit(units[entry][i], entry)>>
                ELSE << >>
    /\ call' = NoCall
    /\ result' = NoResult
    /\ back' = NoBack
    /\ UNCHANGED <<playlist, units, nextEntry, tagVars, uiVars>>

\* order.next(current, error_policy=...)
CallNext(error_policy) ==
    /\ call' = [op |-> "next", current |-> current,
                error_policy |-> error_policy]
    /\ result' = LinearEntryNext(current, error_policy)
    /\ back' = NoBack
    /\ UNCHANGED <<playlist, units, nextEntry, current, trail, tagVars, uiVars>>

\* order.previous(current, error_policy=...)
CallPrevious(error_policy) ==
    /\ call' = [op |-> "previous", current |-> current,
                error_policy |-> error_policy]
    /\ result' = LinearEntryPrevious(current, error_policy)
    /\ back' = NoBack
    /\ UNCHANGED <<playlist, units, nextEntry, current, trail, tagVars, uiVars>>

\* The unit just returned is handed to the opposite operation, under the
\* same policy: order.previous(order.next(current)) or
\* order.next(order.previous(current)).
CallInverse ==
    /\ call.op \in {"next", "previous"}
    /\ result.kind = "return"
    /\ result.value # NoUnit
    /\ back = NoBack
    /\ back' = IF call.op = "next"
               THEN [op |-> "previous", current |-> result.value,
                     result |-> LinearEntryPrevious(result.value,
                                                    call.error_policy)]
               ELSE [op |-> "next", current |-> result.value,
                     result |-> LinearEntryNext(result.value,
                                                call.error_policy)]
    /\ UNCHANGED <<playlist, units, nextEntry, current, trail, call, result,
                   tagVars, uiVars>>

\* Playback moves on: the result of next(current), under the default
\* policy, becomes the current unit; absent stops playback.
Advance ==
    /\ current # NoUnit
    /\ LET r == LinearEntryNext(current, DEFAULT)
       IN  /\ r.kind = "return"
           /\ current' = r.value
           /\ trail' = IF r.value = NoUnit \/ trail = << >> THEN trail
                       ELSE Append(trail, r.value)
    /\ call' = NoCall
    /\ result' = NoResult
    /\ back' = NoBack
    /\ UNCHANGED <<playlist, units, nextEntry, tagVars, uiVars>>

OrderNext ==
    \/ \E us \in SeqsUpTo(Tokens, MaxUnits) : PlaylistAppend(us)
    \/ \E entry \in EntryIds : PlaylistRemove(entry)
    \/ \E entry \in EntryIds, i \in 1..MaxUnits : LibraryTrackRemoved(entry, i)
    \/ \E entry \in EntryIds, i \in 1..MaxUnits : Play(entry, i)
    \/ \E error_policy \in ErrorPolicy : CallNext(error_policy)
    \/ \E error_policy \in ErrorPolicy : CallPrevious(error_policy)
    \/ CallInverse
    \/ Advance


(***************************************************************************)
(* metadata/tag.py.  A Python str is a sequence of characters, a tag name  *)
(* is a str or a TagName member, and an Optional[str] is a sequence of at  *)
(* most one str (<< >> is None).                                           *)
(***************************************************************************)
StrName(id) == [kind |-> "str", id |-> id]
EnumName(id) == [kind |-> "enum", id |-> id]

\* TagName: member name -> value
TagNameValue(member) ==
    CASE member = "ALBUM" -> "album"
      [] member = "ALBUMARTIST" -> "albumartist"
      [] member = "MUSICBRAINZ_ALBUMID" -> "musicbrainz_albumid"
      [] member = "TRACKNUMBER" -> "tracknumber"

TRACKNUMBER == EnumName("TRACKNUMBER")

\* A variant that hands every name back as it came.
TagNameStrUnchanged(tag_name) == tag_name

\* _tag_name_str
TagNameStr(tag_name) ==
    IF tag_name.kind = "enum"
    THEN StrName(TagNameValue(tag_name.id))
    ELSE tag_name

\* Python containers of values: a list or a tuple of str.
List(items) == [type |-> "list", items |-> items]
Tuple(items) == [type |-> "tuple", items |-> items]

\* Tags.__init__: {name: tuple(values) for name, values in tags.items()}
TagsInit(mapping) == [name \in DOMAIN mapping |-> Tuple(mapping[name].items)]

Some(str) == <<str>>
None == << >>

ReturnV(value) == [kind |-> "return", value |-> value]
RaiseV(exc) == [kind |-> "raise", value |-> exc]

\* Tags.__getitem__
GetItem(t, key) ==
    IF TagNameStr(key) \in DOMAIN t
    THEN ReturnV(t[TagNameStr(key)])
    ELSE RaiseV("KeyError")

\* Tags.__contains__
Contains(t, key) == ReturnV(TagNameStr(key) \in DOMAIN t)

\* Mapping.get of the frozendict base: self[key], or default on KeyError.
Get(t, key, default) ==
    IF GetItem(t, key).kind = "return" THEN GetItem(t, key).value
    ELSE default

\* Tags.one_or_none
OneOrNone(t, key) ==
    LET values == Get(t, key, Tuple(<< >>))
    IN  IF Len(values.items) = 1 THEN Some(values.items[1]) ELSE None

\* str.join
RECURSIVE Join(_, _)
Join(separator, items) ==
    IF items = << >> THEN << >>
    ELSE IF Len(items) = 1 THEN items[1]
    ELSE items[1] \o separator \o Join(separator, Tail(items))

DefaultUnknown == <<"[", "u", "n", "k", "n", "o", "w", "n", "]">>
DefaultSeparator == <<";", " ">>

\* Tags.singular, with its default 'default' and 'separator'
Singular(t, key) ==
    Join(DefaultSeparator, Get(t, key, Tuple(<<DefaultUnknown>>)).items)

\* \d of the pattern
Digits == {"1", "2"}
Chars == Digits \cup {"/", "a"}

\* The longest run of digits of s starting at position i (its length).
RECURSIVE DigitRun(_, _)
DigitRun(s, i) ==
    IF i <= Len(s) /\ s[i] \in Digits THEN 1 + DigitRun(s, i + 1) ELSE 0

\* A variant that matches a prefix (re.match) instead of the whole value.
TracknumberRegexMatch(s) ==
    LET k == DigitRun(s, 1)
    IN  IF k = 0 THEN None ELSE Some(SubSeq(s, 1, k))

\* _TRACKNUMBER_REGEX.fullmatch(s): group 'tracknumber' of the match of
\* (?P<tracknumber>\d+)(?:/(?P<totaltracks>\d+))? against all of s, or None.
\* \d+ is greedy; giving digits back never helps, as what follows a shorter
\* run is a digit, which neither '/' nor the end of the value matches.
TracknumberRegexFullmatch(s) ==
    LET k == DigitRun(s, 1)
    IN  IF k = 0 THEN None
        ELSE IF k = Len(s) THEN Some(SubSeq(s, 1, k))
        ELSE IF s[k + 1] = "/"
                /\ DigitRun(s, k + 2) > 0
                /\ k + 1 + DigitRun(s, k + 2) = Len(s)
             THEN Some(SubSeq(s, 1, k))
        ELSE None

\* Tags.tracknumber
Tracknumber(t) ==
    LET tracknumber == OneOrNone(t, TRACKNUMBER)
    IN  IF tracknumber = None THEN None
        ELSE LET match == TracknumberRegexFullmatch(tracknumber[1])
             IN  IF match = None THEN tracknumber ELSE match

\* Mapping.items of the frozendict base: each stored key with self[key].
Items(t) ==
    IF \A k \in DOMAIN t : GetItem(t, k).kind = "return"
    THEN ReturnV([k \in DOMAIN t |-> GetItem(t, k).value])
    ELSE RaiseV("KeyError")

\* Mapping.__eq__ of the frozendict base: dict(self.items()) ==
\* dict(other.items())
TagsEq(t, other) ==
    IF Items(t).kind = "raise" \/ Items(other).kind = "raise"
    THEN RaiseV("KeyError")
    ELSE ReturnV(Items(t).value = Items(other).value)

(***************************************************************************)
(* compose.  A collections.Counter is kept as the sequence of its          *)
(* (element, count) entries in insertion order.                            *)
(***************************************************************************)
RECURSIVE SetToSeq(_)
SetToSeq(S) ==
    IF S = {} THEN << >>
    ELSE LET x == CHOOSE y \in S : TRUE
         IN  <<x>> \o SetToSeq(S \ {x})

\* tag_pairs of one component: (name, value) for each value of each name,
\* the names in the dict's iteration order.
RECURSIVE TagPairsOf(_, _)
TagPairsOf(t, names) ==
    IF names = << >> THEN << >>
    ELSE [i \in 1..Len(t[Head(names)].items) |->
             <<Head(names), t[Head(names)].items[i]>>]
         \o TagPairsOf(t, Tail(names))

TagPairs(t) == TagPairsOf(t, SetToSeq(DOMAIN t))

CounterCount(counter, elem) ==
    LET hits == {i \in 1..Len(counter) : counter[i].elem = elem}
    IN  IF hits = {} THEN 0 ELSE counter[CHOOSE i \in hits : TRUE].count

\* collections.Counter(iterable)
RECURSIVE Counter(_)
Counter(elems) ==
    IF elems = << >> THEN << >>
    ELSE LET rest == Counter(SubSeq(elems, 1, Len(elems) - 1))
             last == elems[Len(elems)]
         IN  IF CounterCount(rest, last) = 0
             THEN Append(rest, [elem |-> last, count |-> 1])
             ELSE [i \in 1..Len(rest) |->
                      IF rest[i].elem = last
                      THEN [elem |-> last, count |-> rest[i].count + 1]
                      ELSE rest[i]]

Min2(a, b) == IF a < b THEN a ELSE b
Max2(a, b) == IF a < b THEN b ELSE a

\* Counter.__or__ (operator.or_): the maximum of the two counts.
CounterOr(c1, c2) ==
    [i \in 1..Len(c1) |->
        [elem |-> c1[i].elem,
         count |-> Max2(c1[i].count, CounterCount(c2, c1[i].elem))]]
    \o SelectSeq(c2, LAMBDA e : CounterCount(c1, e.elem) = 0)

\* Counter.__and__ (operator.and_): the minimum of the two counts, for the
\* elements of the left operand in its order, positive counts only.
CounterAnd(c1, c2) ==
    SelectSeq([i \in 1..Len(c1) |->
                  [elem |-> c1[i].elem,
                   count |-> Min2(c1[i].count, CounterCount(c2, c1[i].elem))]],
              LAMBDA e : e.count > 0)

\* functools.reduce(operator.and_, tag_pair_counters), on a non-empty list
RECURSIVE ReduceAnd(_)
ReduceAnd(counters) ==
    IF Len(counters) = 1 THEN counters[1]
    ELSE CounterAnd(ReduceAnd(SubSeq(counters, 1, Len(counters) - 1)),
                    counters[Len(counters)])

\* Counter.elements(): each element repeated count times, in order.
RECURSIVE Elements(_)
Elements(counter) ==
    IF counter = << >> THEN << >>
    ELSE [i \in 1..Head(counter).count |-> Head(counter).elem]
         \o Elements(Tail(counter))

\* tags[name].append(value) for each (name, value), tags a defaultdict(list)
GroupByName(pairs) ==
    [name \in {pairs[i][1] : i \in 1..Len(pairs)} |->
        List([i \in 1..Len(SelectSeq(pairs, LAMBDA q : q[1] = name)) |->
                 SelectSeq(pairs, LAMBDA q : q[1] = name)[i][2]])]

\* compose(components_tags)
Compose(components_tags) ==
    IF components_tags = << >> THEN TagsInit(<< >>)
    ELSE LET tag_pair_counters ==
                 [i \in 1..Len(components_tags) |->
                     Counter(TagPairs(components_tags[i]))]
             common_tag_pair_counter == ReduceAnd(tag_pair_counters)
         IN  TagsInit(GroupByName(Elements(common_tag_pair_counter)))

(***************************************************************************)
(* The Tags the specifications draw their inputs from.                     *)
(***************************************************************************)
Mappings(names, containers) ==
    UNION {[present -> containers] : present \in SUBSET names}

Containers(values, n) ==
    {List(v) : v \in SeqsUpTo(values, n)}
        \cup {Tuple(v) : v \in SeqsUpTo(values, n)}

RECURSIVE TotalValues(_, _)
TotalValues(mapping, names) ==
    IF names = {} THEN 0
    ELSE LET n == CHOOSE x \in names : TRUE
         IN  Len(mapping[n].items) + TotalValues(mapping, names \ {n})

TagValues == {<<"x">>, <<"y">>}
LookupNames == {StrName("tracknumber"), TRACKNUMBER}
LookupInputs == Mappings(LookupNames, Containers(TagValues, MaxValues))

Strs(n) == SeqsUpTo(Chars, n)
SampleValues == {<<"1">>, <<"1", "/", "2">>, <<"a">>}
TracknumberInputs ==
    {<< >>}
        \cup {[name \in {StrName("tracknumber")} |-> Tuple(<<s>>)] :
                 s \in Strs(MaxStrLen)}
        \cup {[name \in {StrName("tracknumber")} |-> Tuple(vs)] :
                 vs \in SeqsUpTo(SampleValues, MaxValues)}

ComposeNames == {StrName("a"), StrName("b")}
ComposeInputs ==
    {TagsInit(m) :
        m \in {mm \in Mappings(ComposeNames,
                               {Tuple(v) : v \in SeqsUpTo(TagValues, MaxPairs)}) :
                  TotalValues(mm, DOMAIN mm) <= MaxPairs}}

(***************************************************************************)
(* Tags: a Tags is constructed from a mapping, then read.                  *)
(***************************************************************************)
NoKey == StrName("-")
NotComposed == << >>

TagsIdle ==
    /\ tagsIn = << >>
    /\ tags = << >>
    /\ tagCalls = << >>
    /\ components = << >>
    /\ composed = NotComposed

\* tag.Tags(tagsIn)
TagsInitial(inputs) ==
    /\ tagsIn \in inputs
    /\ tags = TagsInit(tagsIn)
    /\ tagCalls = << >>
    /\ components = << >>
    /\ composed = NotComposed

\* The two latest calls are kept.
Logged(op, key, path, outcome) ==
    LET c == [op |-> op, key |-> key, path |-> path, result |-> outcome]
    IN  IF Len(tagCalls) < 2 THEN Append(tagCalls, c) ELSE <<tagCalls[2], c>>

\* key in tags
CallContains(key) ==
    /\ tagCalls' = Logged("contains", key, "-", Contains(tags, key))
    /\ UNCHANGED <<tagsIn, tags, components, composed, orderVars, uiVars>>

\* tags[key]
CallGetItem(key) ==
    /\ tagCalls' = Logged("getitem", key, "-", GetItem(tags, key))
    /\ UNCHANGED <<tagsIn, tags, components, composed, orderVars, uiVars>>

\* tags.one_or_none(key)
CallOneOrNone(key) ==
    /\ tagCalls' =
          Logged("one_or_none", key, "-", ReturnV(OneOrNone(tags, key)))
    /\ UNCHANGED <<tagsIn, tags, components, composed, orderVars, uiVars>>

\* tags.singular(key)
CallSingular(key) ==
    /\ tagCalls' = Logged("singular", key, "-", ReturnV(Singular(tags, key)))
    /\ UNCHANGED <<tagsIn, tags, components, composed, orderVars, uiVars>>

\* tags.tracknumber
CallTracknumber ==
    /\ tagCalls' = Logged("tracknumber", NoKey, "-", ReturnV(Tracknumber(tags)))
    /\ UNCHANGED <<tagsIn, tags, components, composed, orderVars, uiVars>>

\* The same name-to-values content, supplied another way: the values as
\* lists or as tuples, the well-known names as TagName members or as str.
TagNameValues == {"album", "albumartist", "musicbrainz_albumid", "tracknumber"}

TagNameMember(value) ==
    CASE value = "album" -> "ALBUM"
      [] value = "albumartist" -> "ALBUMARTIST"
      [] value = "musicbrainz_albumid" -> "MUSICBRAINZ_ALBUMID"
      [] value = "tracknumber" -> "TRACKNUMBER"

Renamed(key, path) ==
    IF path = "names_as_enum" /\ key.kind = "str" /\ key.id \in TagNameValues
    THEN EnumName(TagNameMember(key.id))
    ELSE IF path = "names_as_str" /\ key.kind = "enum"
    THEN StrName(TagNameValue(key.id))
    ELSE key

Recontained(values, path) ==
    IF path = "values_as_list" THEN List(values.items)
    ELSE IF path = "values_as_tuple" THEN Tuple(values.items)
    ELSE values

Paths == {"values_as_list", "values_as_tuple", "names_as_enum", "names_as_str"}

Resupplied(mapping, path) ==
    [name \in {Renamed(k, path) : k \in DOMAIN mapping} |->
        Recontained(mapping[CHOOSE k \in DOMAIN mapping :
                                Renamed(k, path) = name], path)]

\* tags == tag.Tags(<the same content, supplied another way>)
CallEq(path) ==
    /\ \A k1, k2 \in DOMAIN tagsIn :
          Renamed(k1, path) = Renamed(k2, path) => k1 = k2
    /\ tagCalls' = Logged("eq", NoKey, path,
                           TagsEq(tags, TagsInit(Resupplied(tagsIn, path))))
    /\ UNCHANGED <<tagsIn, tags, components, composed, orderVars, uiVars>>

TagsNext ==
    \/ \E key \in LookupNames : CallContains(key)
    \/ \E key \in LookupNames : CallGetItem(key)
    \/ \E key \in LookupNames : CallOneOrNone(key)
    \/ \E key \in LookupNames : CallSingular(key)
    \/ \E path \in Paths : CallEq(path)

\* compose(components)
CallCompose ==
    /\ composed = NotComposed
    /\ composed' = <<Compose(components)>>
    /\ UNCHANGED <<tagsIn, tags, tagCalls, components, orderVars, uiVars>>

ComposeInitial ==
    /\ tagsIn = << >>
    /\ tags = << >>
    /\ tagCalls = << >>
    /\ components \in SeqsUpTo(ComposeInputs, MaxComponents)
    /\ composed = NotComposed

(***************************************************************************)
(* The application shell and the event bus, as ui/application_test.py      *)
(* drives them.  A PlayStatus is its state and whether it carries a        *)
(* playable unit.                                                          *)
(***************************************************************************)
STOPPED == "STOPPED"
PAUSED == "PAUSED"
PLAYING == "PLAYING"
State == {STOPPED, PAUSED, PLAYING}

\* audio.PlayStatus(state=..., playable_unit=..., duration=..., position=...)
\* as the test builds it: no unit when stopped, the appended entry's
\* otherwise.
PlayStatus(state) == [state |-> state, playable_unit |-> state # STOPPED]

\* The shell as constructed over an empty playlist: the control shows
\* 'play' and cannot be activated; the player mock has seen no call.
UiInit ==
    /\ phase = "acting"
    /\ entries = 0
    /\ published = << >>
    /\ queue = << >>
    /\ delivered = << >>
    /\ idle = << >>
    /\ sensitive = FALSE
    /\ visible = "play"
    /\ stale = FALSE
    /\ clicks = 0
    /\ playCalls = 0
    /\ pauseCalls = 0

\* playlist.append(track.token)
UiAppend ==
    /\ phase = "acting"
    /\ entries < MaxAppends
    /\ entries' = entries + 1
    /\ stale' = TRUE
    /\ UNCHANGED <<phase, published, queue, delivered, idle, sensitive,
                   visible, clicks, playCalls, pauseCalls, orderVars, tagVars>>

\* pubsub.publish(audio.PlayStatus(...)): the event is enqueued.
Publish(state) ==
    /\ phase = "acting"
    /\ Len(published) < MaxPublishes
    /\ state # STOPPED => entries > 0
    /\ published' = Append(published, PlayStatus(state))
    /\ queue' = Append(queue, PlayStatus(state))
    /\ stale' = FALSE
    /\ UNCHANGED <<phase, entries, delivered, idle, sensitive, visible,
                   clicks, playCalls, pauseCalls, orderVars, tagVars>>

\* A variant of the bus that delivers the newest pending event first.
DeliverNewestFirst ==
    /\ queue # << >>
    /\ queue' = SubSeq(queue, 1, Len(queue) - 1)
    /\ delivered' = Append(delivered, queue[Len(queue)])
    /\ idle' = Append(idle, queue[Len(queue)])
    /\ UNCHANGED <<phase, entries, published, sensitive, visible, stale,
                   clicks, playCalls, pauseCalls, orderVars, tagVars>>

\* The bus delivers the oldest pending event to the shell's subscription,
\* which schedules the update of its widgets on the UI loop.
Deliver ==
    /\ queue # << >>
    /\ queue' = Tail(queue)
    /\ delivered' = Append(delivered, Head(queue))
    /\ idle' = Append(idle, Head(queue))
    /\ UNCHANGED <<phase, entries, published, sensitive, visible, stale,
                   clicks, playCalls, pauseCalls, orderVars, tagVars>>

\* A variant of the update that shows 'pause' whenever a unit is loaded.
UpdatePlayStatusByUnit ==
    /\ idle # << >>
    /\ phase \in {"acting", "draining"}
    /\ idle' = Tail(idle)
    /\ visible' = IF Head(idle).playable_unit THEN "pause" ELSE "play"
    /\ sensitive' = (Head(idle).playable_unit \/ entries > 0)
    /\ UNCHANGED <<phase, entries, published, queue, delivered, stale,
                   clicks, playCalls, pauseCalls, orderVars, tagVars>>

\* The UI loop runs the scheduled update: the control shows 'pause' while
\* playing and 'play' otherwise, and can be activated when there is
\* something to play.
UpdatePlayStatus ==
    /\ idle # << >>
    /\ phase \in {"acting", "draining"}
    /\ idle' = Tail(idle)
    /\ visible' = IF Head(idle).state = PLAYING THEN "pause" ELSE "play"
    /\ sensitive' = (Head(idle).playable_unit \/ entries > 0)
    /\ UNCHANGED <<phase, entries, published, queue, delivered, stale,
                   clicks, playCalls, pauseCalls, orderVars, tagVars>>

\* pubsub.join() is called: the caller blocks.
JoinCall ==
    /\ phase = "acting"
    /\ phase' = "joining"
    /\ UNCHANGED <<entries, published, queue, delivered, idle, sensitive,
                   visible, stale, clicks, playCalls, pauseCalls,
                   orderVars, tagVars>>

\* pubsub.join() returns once every published event has been delivered;
\* the test then starts the UI loop with a low-priority quit scheduled.
JoinReturn ==
    /\ phase = "joining"
    /\ queue = << >>
    /\ phase' = "draining"
    /\ UNCHANGED <<entries, published, queue, delivered, idle, sensitive,
                   visible, stale, clicks, playCalls, pauseCalls,
                   orderVars, tagVars>>

\* Gtk.main() returns: the low-priority quit runs once nothing else is
\* scheduled on the loop.
MainQuit ==
    /\ phase = "draining"
    /\ idle = << >>
    /\ phase' = "settled"
    /\ UNCHANGED <<entries, published, queue, delivered, idle, sensitive,
                   visible, stale, clicks, playCalls, pauseCalls,
                   orderVars, tagVars>>

\* A variant of the click handler with the two operations swapped.
ClickedSwapped ==
    /\ phase = "settled"
    /\ sensitive
    /\ clicks < MaxClicks
    /\ clicks' = clicks + 1
    /\ IF visible = "play"
       THEN pauseCalls' = pauseCalls + 1 /\ UNCHANGED playCalls
       ELSE playCalls' = playCalls + 1 /\ UNCHANGED pauseCalls
    /\ UNCHANGED <<phase, entries, published, queue, delivered, idle,
                   sensitive, visible, stale, orderVars, tagVars>>

\* app.play_pause_button.clicked(): play() when the control shows 'play',
\* pause() when it shows 'pause'.
Clicked ==
    /\ phase = "settled"
    /\ sensitive
    /\ clicks < MaxClicks
    /\ clicks' = clicks + 1
    /\ IF visible = "play"
       THEN playCalls' = playCalls + 1 /\ UNCHANGED pauseCalls
       ELSE pauseCalls' = pauseCalls + 1 /\ UNCHANGED playCalls
    /\ UNCHANGED <<phase, entries, published, queue, delivered, idle,
                   sensitive, visible, stale, orderVars, tagVars>>

UiNext ==
    \/ UiAppend
    \/ \E state \in State : Publish(state)
    \/ Deliver
    \/ UpdatePlayStatus
    \/ JoinCall
    \/ JoinReturn
    \/ MainQuit
    \/ Clicked

InitOrder ==
    /\ OrderInit
    /\ TagsIdle
    /\ UiInit

InitTags ==
    /\ OrderInit
    /\ TagsInitial(LookupInputs)
    /\ UiInit

InitTracknumber ==
    /\ OrderInit
    /\ TagsInitial(TracknumberInputs)
    /\ UiInit

InitCompose ==
    /\ OrderInit
    /\ ComposeInitial
    /\ UiInit

SpecOrder == InitOrder /\ [][OrderNext]_vars

SpecTags == InitTags /\ [][TagsNext]_vars

SpecTracknumber == InitTracknumber /\ [][CallTracknumber]_vars

SpecCompose == InitCompose /\ [][CallCompose]_vars

SpecUi == InitOrder /\ [][UiNext]_vars

(***************************************************************************)
(* Claims about LinearEntry (checked under SpecOrder).                     *)
(***************************************************************************)
\* The playable units u_1..u_n of an entry, as the claims name them.
EntryUnit(e, i) == PlayableUnit(units[e][i], e)

\* What a 'no wraparound' neighbour lookup gives at position i of entry e.
Neighbour(e, i, op) ==
    LET k == IF op = "next" THEN i + 1 ELSE i - 1
    IN  IF k \in 1..Len(units[e]) THEN EntryUnit(e, k) ELSE NoUnit

\* The track token of u_i occurs at no other position of the entry.
TokenOnlyAt(e, i) ==
    \A j \in 1..Len(units[e]) : units[e][j] = units[e][i] => j = i

DistinctTokens(e) == \A i \in 1..Len(units[e]) : TokenOnlyAt(e, i)

Called == call.op \in {"next", "previous"}

C2_RemovedEntry ==
    (Called /\ call.current # NoUnit
            /\ ~InPlaylist(call.current.playlist_entry))
        => /\ call.error_policy = RAISE_STOP_ERROR
                => result = Raise("StopError")
           /\ call.error_policy = DEFAULT
                => result = Return(NoUnit)

\* next raised StopError for a unit whose entry is gone.
C2_Witness ==
    /\ call.op = "next"
    /\ call.current # NoUnit
    /\ ~InPlaylist(call.current.playlist_entry)
    /\ call.error_policy = RAISE_STOP_ERROR
    /\ result.kind = "raise"

\* The entry whose playback the trail records.
TrailEntry == trail[1].playlist_entry

\* Playback of the entry has stopped: next returned absent.
Stopped == trail # << >> /\ current = NoUnit

TrailInOrder ==
    /\ \A k \in 1..Len(trail) :
          k <= Len(units[TrailEntry]) /\ trail[k] = EntryUnit(TrailEntry, k)
    /\ Stopped => Len(trail) = Len(units[TrailEntry])

TrailStaysInEntry ==
    /\ \A k \in 1..Len(trail) : trail[k].playlist_entry = TrailEntry
    /\ Len(trail) <= Len(units[TrailEntry])

EntryGone == ~InPlaylist(call.current.playlist_entry)

TokenGone ==
    /\ InPlaylist(call.current.playlist_entry)
    /\ call.current.track \notin Range(units[call.current.playlist_entry])

\* C11: in next and previous both lookup failures (the current unit's entry
\* is no longer in the playlist; its track token is not among the entry's
\* units) become StopError: raised under RAISE_STOP_ERROR, absent under
\* RETURN_NONE; no KeyError reaches the caller under either policy; and an
\* absent current unit gives absent, without error, under either policy.
C11_LookupFailures ==
    Called =>
        /\ (call.current # NoUnit /\ (EntryGone \/ TokenGone)) =>
               /\ call.error_policy = RAISE_STOP_ERROR
                    => result = Raise("StopError")
               /\ call.error_policy = RETURN_NONE
                    => result = Return(NoUnit)
        /\ result.kind = "raise" =>
               (result.exc = "StopError"
                    /\ call.error_policy = RAISE_STOP_ERROR)
        /\ call.current = NoUnit => result = Return(NoUnit)

\* previous raised StopError for a unit whose track is no longer among the
\* units of its entry, which is still in the playlist.
C11_Witness ==
    /\ call.op = "previous"
    /\ call.current # NoUnit
    /\ TokenGone
    /\ units[call.current.playlist_entry] # << >>
    /\ call.error_policy = RAISE_STOP_ERROR
    /\ result = Raise("StopError")

\* C12: while the playlist is unchanged and the track tokens of an entry's
\* units are pairwise distinct, next and previous are mutual inverses on
\* the entry: if next(u) returns a unit v then previous(v) returns u, and
\* if previous(u) returns a unit v then next(v) returns u.
C12_MutualInverses ==
    (/\ back # NoBack
     /\ InPlaylist(call.current.playlist_entry)
     /\ DistinctTokens(call.current.playlist_entry))
        => /\ back.current = result.value
           /\ back.op # call.op
           /\ back.result = Return(call.current)

\* previous of the third of three units returned the second, and next of
\* the second returned the third.
C12_Witness ==
    /\ call.op = "previous"
    /\ call.current # NoUnit
    /\ Len(units[call.current.playlist_entry]) = 3
    /\ DistinctTokens(call.current.playlist_entry)
    /\ call.current = EntryUnit(call.current.playlist_entry, 3)
    /\ back.op = "next"
    /\ back.current = EntryUnit(call.current.playlist_entry, 2)
    /\ back.result = Return(call.current)

\* The positions of entry e at which track token t occurs.
Occurrences(e, t) == {i \in 1..Len(units[e]) : units[e][i] = t}

CountIn(values, v) == Cardinality({i \in 1..Len(values) : values[i] = v})

\* How many times value v appears under name in the Tags t.
PairCount(t, name, v) ==
    IF name \in DOMAIN t THEN CountIn(t[name].items, v) ELSE 0

LeastPairCount(name, v) ==
    CHOOSE n \in {PairCount(components[i], name, v) : i \in 1..Len(components)} :
        \A i \in 1..Len(components) : n <= PairCount(components[i], name, v)

\* C7: compose returns the multiset intersection of the components'
\* (name, value) pairs: each value appears under each name as often as the
\* least number of times it appears there in any component, a name with no
\* surviving value is absent, and zero components give empty Tags.
C7_MultisetIntersection ==
    composed # NotComposed =>
        LET r == composed[1]
        IN  /\ components = << >> => DOMAIN r = {}
            /\ components # << >> =>
                 /\ \A name \in ComposeNames, v \in TagValues :
                       PairCount(r, name, v) = LeastPairCount(name, v)
                 /\ DOMAIN r \subseteq ComposeNames
            /\ \A name \in DOMAIN r :
                 /\ r[name].type = "tuple"
                 /\ r[name].items # << >>
                 /\ Range(r[name].items) \subseteq TagValues

\* compose([{a: [x, x]}, {a: [x]}]) gave {a: [x]}.
C7_Witness ==
    /\ composed = <<[n \in {StrName("a")} |-> Tuple(<<<<"x">>>>)]>>
    /\ Len(components) = 2
    /\ components[1] = [n \in {StrName("a")} |-> Tuple(<<<<"x">>, <<"x">>>>)]
    /\ components[2] = [n \in {StrName("a")} |-> Tuple(<<<<"x">>>>)]

(***************************************************************************)
(* Claims about Tags (checked under SpecTags and SpecTracknumber).         *)
(***************************************************************************)
\* The str a name stands for: a TagName member stands for its value.
NameAsStr(key) ==
    IF key.kind = "enum" THEN StrName(TagNameValue(key.id)) ELSE key

\* The values the constructor was given for a name; none if it was not.
GivenValues(key) ==
    IF NameAsStr(key) \in DOMAIN tagsIn THEN tagsIn[NameAsStr(key)].items
    ELSE << >>

\* C8 as stated: singular(name) returns "[unknown]" whenever no values are
\* present for the name (the name is missing, or maps to an empty sequence
\* of values), and otherwise all the name's values, in order and with
\* duplicates, joined by "; ".
C8_AsStated ==
    \A i \in 1..Len(tagCalls) :
        tagCalls[i].op = "singular" =>
            tagCalls[i].result =
                ReturnV(IF GivenValues(tagCalls[i].key) = << >>
                        THEN DefaultUnknown
                        ELSE Join(<<";", " ">>, GivenValues(tagCalls[i].key)))

\* Two calls ended the same way: the same value returned, or the same
\* exception raised.
SameResult(r1, r2) == r1.kind = r2.kind /\ r1.value = r2.value

LookupOps == {"contains", "getitem", "one_or_none", "singular"}

\* A lookup by TagName member and the same lookup by the member's string
\* value give the same result.
LookupsAgree ==
    \A i, j \in 1..Len(tagCalls) :
        (/\ tagCalls[i].op \in LookupOps
         /\ tagCalls[j].op = tagCalls[i].op
         /\ tagCalls[i].key.kind = "enum"
         /\ tagCalls[j].key = StrName(TagNameValue(tagCalls[i].key.id)))
            => SameResult(tagCalls[i].result, tagCalls[j].result)

\* The Tags equals the Tags built from the same content supplied by `paths'.
EqualAcross(paths) ==
    \A i \in 1..Len(tagCalls) :
        (tagCalls[i].op = "eq" /\ tagCalls[i].path \in paths)
            => SameResult(tagCalls[i].result, ReturnV(TRUE))

\* The names of the constructor's mapping were all supplied as strings.
StrNamed == \A k \in DOMAIN tagsIn : k.kind = "str"

AllDigits(s, from, to) ==
    from <= to /\ \A i \in from..to : s[i] \in Digits

\* The lengths k of a leading run of digits that the rest of s completes to
\* <digits> or <digits>/<digits>.
WellFormedSplits(s) ==
    {k \in 1..Len(s) :
        /\ AllDigits(s, 1, k)
        /\ \/ k = Len(s)
           \/ k < Len(s) /\ s[k + 1] = "/" /\ AllDigits(s, k + 2, Len(s))}

\* C10: tracknumber returns absent unless the tracknumber tag has exactly
\* one value; for one value of the form <digits> or <digits>/<digits> it
\* returns the leading digits, for any other single value the value itself.
C10_Tracknumber ==
    \A i \in 1..Len(tagCalls) :
        tagCalls[i].op = "tracknumber" =>
            LET vs == GivenValues(TRACKNUMBER)
            IN  tagCalls[i].result =
                    ReturnV(IF Len(vs) # 1 THEN None
                            ELSE IF WellFormedSplits(vs[1]) = {}
                            THEN Some(vs[1])
                            ELSE Some(SubSeq(vs[1], 1,
                                     CHOOSE k \in WellFormedSplits(vs[1]) : TRUE)))

\* tracknumber of {"tracknumber": ["2/12"]} gave "2".
C10_Witness ==
    /\ GivenValues(TRACKNUMBER) = <<<<"2", "/", "1", "2">>>>
    /\ Len(tagCalls) > 0
    /\ tagCalls[1].op = "tracknumber"
    /\ tagCalls[1].result = ReturnV(Some(<<"2">>))

(***************************************************************************)
(* Claims about the application shell and the event bus (checked under     *)
(* SpecUi).                                                                *)
(***************************************************************************)
\* The state of the latest PlayStatus published; STOPPED is published
\* before the shell is constructed.
LastPublishedState ==
    IF published = << >> THEN STOPPED ELSE published[Len(published)].state

\* The control shows 'pause' exactly when the last published state is
\* PLAYING, and can be activated exactly when the playlist has an entry.
ControlReflectsStatus ==
    /\ visible = "pause" <=> LastPublishedState = PLAYING
    /\ visible = "play" <=> LastPublishedState \in {STOPPED, PAUSED}
    /\ sensitive <=> entries > 0

C5_TransportWiring ==
    /\ visible = "play" => (playCalls = clicks /\ pauseCalls = 0)
    /\ visible = "pause" => (pauseCalls = clicks /\ playCalls = 0)

\* The control was activated once while showing 'pause': pause() was called
\* once, play() not at all.
C5_Witness ==
    /\ clicks = 1
    /\ visible = "pause"
    /\ pauseCalls = 1
    /\ playCalls = 0

IsPrefix(s, t) == Len(s) <= Len(t) /\ SubSeq(t, 1, Len(s)) = s

\* C6: events are delivered to the subscriber in the order they were
\* published, and once join() has returned every event published before
\* it has been delivered: none is still pending.
C6_OrderedAndJoined ==
    /\ IsPrefix(delivered, published)
    /\ phase \in {"draining", "settled"} =>
          (delivered = published /\ queue = << >>)

\* join() was called with two different events still pending and has
\* returned; both were delivered, in publish order.
C6_Witness ==
    /\ phase = "draining"
    /\ Len(published) = 3
    /\ published[2] # published[3]
    /\ delivered = published
    /\ Len(idle) >= 2

=============================================================================
